---------------------------- MODULE Spec2Model ----------------------------
(***************************************************************************)
(* Model of the LocaleChecker gramplet (src/LocaleChecker.py).             *)
(*                                                                         *)
(* The gramplet has two entry points, init() and main().  main() reads the *)
(* host's locale object (GrampsLocale) and the translations directory and  *)
(* appends a report to the panel; a per-instance flag, has_run, makes      *)
(* every call after the first one return at once.                          *)
(*                                                                         *)
(* Python strings are TLA+ strings; a Python value that may be None or a   *)
(* missing attribute is a record [t, v] (see None, Str, Absent).  A dict   *)
(* is the sequence of its <<key, value>> items in insertion order.         *)
(***************************************************************************)
EXTENDS Integers, Sequences, FiniteSets, TLC

VARIABLES
    gl,          \* the host's locale object, as GrampsLocale() returns it
    fs,          \* the file system at the translations directory's path
    use_markup,  \* the panel's markup mode (Gramplet.set_use_markup)
    has_run,     \* self.has_run: "unset" before init(), then "NotRun" (False) / "Run" (True)
    panel,       \* the panel's text: the chunks appended so far, in order
    frame,       \* the locals of the last main() call that ran to its end
    outcome,     \* how the last main() call that got past the guard ended
    calls        \* the number of main() calls made so far

vars == <<gl, fs, use_markup, has_run, panel, frame, outcome, calls>>

(***************************************************************************)
(* Bounds of the model.                                                    *)
(***************************************************************************)
MaxCalls   == 3   \* main() calls per panel
MaxTagLen  == 3   \* length of the generated language tags
MaxNameLen == 4   \* length of the generated language names
MaxCatalog == 2   \* entries of the generated language catalogs
MaxEntries == 3   \* entries of the translations directory (besides . and ..)

(***************************************************************************)
(* Python values.                                                          *)
(***************************************************************************)
None   == [t |-> "None", v |-> ""]
Str(s) == [t |-> "str", v |-> s]
Absent == [t |-> "absent", v |-> ""]     \* an attribute the object does not have

\* bool(x) of a value that is None or a str
truthy(x) == x.t = "str" /\ x.v # ""

\* str(x), as the "%s" conversion applies it to a value that is None or a str
str(x) == IF x.t = "str" THEN x.v ELSE "None"

\* getattr(obj, name, default), given the attribute's slot
getattr(slot, default) == IF slot.t = "absent" THEN default ELSE slot

Char(s, i) == SubSeq(s, i, i)

\* The characters the model's strings use, in code-point order.
CodePoints == "\n ()./:<>ABCDEFGHIJKLMNOPQRSTUVWXYZ_abcdefghijklmnopqrstuvwxyz"

ord(c) == CHOOSE i \in 1..Len(CodePoints) : Char(CodePoints, i) = c

\* c in s, for a one-character c
contains(s, c) == \E i \in 1..Len(s) : Char(s, i) = c

\* s.find(c) + 1 for a one-character c: the first position of c in s, 0 if none
find(s, c) ==
    IF contains(s, c)
    THEN CHOOSE i \in 1..Len(s) :
             /\ Char(s, i) = c
             /\ \A j \in 1..(i - 1) : Char(s, j) # c
    ELSE 0

\* s.split(sep, maxsplit) for a one-character sep; maxsplit = -1 is "no limit"
RECURSIVE split(_, _, _)
split(s, sep, maxsplit) ==
    LET i == find(s, sep) IN
    IF maxsplit = 0 \/ i = 0
    THEN <<s>>
    ELSE <<SubSeq(s, 1, i - 1)>> \o split(SubSeq(s, i + 1, Len(s)), sep, maxsplit - 1)

\* a < b on str: lexicographic by code point
RECURSIVE str_lt(_, _)
str_lt(a, b) ==
    IF b = "" THEN FALSE
    ELSE IF a = "" THEN TRUE
    ELSE IF Char(a, 1) # Char(b, 1) THEN ord(Char(a, 1)) < ord(Char(b, 1))
    ELSE str_lt(SubSeq(a, 2, Len(a)), SubSeq(b, 2, Len(b)))

\* sorted(S, reverse=True)
RECURSIVE sorted_descending(_)
sorted_descending(S) ==
    IF S = {} THEN <<>>
    ELSE LET m == CHOOSE x \in S : \A y \in S \ {x} : str_lt(y, x)
         IN <<m>> \o sorted_descending(S \ {m})

\* sorted(S) of a collection of distinct strings, ascending
RECURSIVE sorted(_)
sorted(S) ==
    IF S = {} THEN <<>>
    ELSE LET m == CHOOSE x \in S : \A y \in S \ {x} : str_lt(x, y)
         IN <<m>> \o sorted(S \ {m})

(***************************************************************************)
(* dict operations on item sequences.                                      *)
(***************************************************************************)
has_key(d, k) == \E i \in DOMAIN d : d[i][1] = k

\* d.setdefault(k, v): an existing key keeps its value
dict_setdefault(d, k, v) ==
    IF has_key(d, k) THEN d ELSE Append(d, <<k, v>>)

\* d[k] = v: an existing key keeps its place and takes the new value
dict_set(d, k, v) ==
    IF has_key(d, k)
    THEN [i \in DOMAIN d |-> IF d[i][1] = k THEN <<k, v>> ELSE d[i]]
    ELSE Append(d, <<k, v>>)

\* d.get(key, default); key is None or a str, the keys of d are str
dict_get(d, key, default) ==
    IF key.t = "str" /\ has_key(d, key.v)
    THEN d[CHOOSE i \in DOMAIN d : d[i][1] = key.v][2]
    ELSE default

\* {v: k for k, v in items}, built item by item onto acc
RECURSIVE invert(_, _)
invert(items, acc) ==
    IF items = <<>> THEN acc
    ELSE invert(Tail(items), dict_set(acc, Head(items)[2], Head(items)[1]))

code_to_name(language_dict) == invert(language_dict, <<>>)


(***************************************************************************)
(* re.search(r"\(([^)]+)\)", s): None, or the str of group 1 of the        *)
(* leftmost match.  At a "(" the greedy [^)]+ runs up to the next ")" (or  *)
(* to the end of s); the match needs that ")" and at least one character   *)
(* before it, else the search moves on to the next position.               *)
(***************************************************************************)
RECURSIVE re_search_from(_, _)
re_search_from(s, i) ==
    IF i > Len(s) THEN None
    ELSE IF Char(s, i) = "("
         THEN LET rest == SubSeq(s, i + 1, Len(s))
                  j    == find(rest, ")")
              IN IF j > 1 THEN Str(SubSeq(rest, 1, j - 1))
                 ELSE re_search_from(s, i + 1)
         ELSE re_search_from(s, i + 1)

\* the search with the group written (.+): from the first "(" that has a ")"
\* two or more places on, up to the last ")" of s
re_search_greedy(s) ==
    LET ok(i) == Char(s, i) = "(" /\ \E j \in (i + 2)..Len(s) : Char(s, j) = ")" IN
    IF \E i \in 1..Len(s) : ok(i)
    THEN LET i == CHOOSE x \in 1..Len(s) : ok(x) /\ \A y \in 1..(x - 1) : ~ok(y)
             j == CHOOSE x \in 1..Len(s) :
                      Char(s, x) = ")" /\ \A y \in (x + 1)..Len(s) : Char(s, y) # ")"
         IN Str(SubSeq(s, i + 1, j - 1))
    ELSE None

re_search(s) == re_search_from(s, 1)

(***************************************************************************)
(* The file system under the translations directory's path.  fs.kind says  *)
(* what the path names; fs.entries are the directory's entries, "." and    *)
(* ".." among them.                                                        *)
(***************************************************************************)
LocalePath == "/usr/share/locale"

DotEntries == {[name |-> ".", isdir |-> TRUE], [name |-> "..", isdir |-> TRUE]}

\* os.path.exists(path)
os_path_exists(f) == f.kind # "missing"

os_path_isdir(f) == f.kind = "dir"

\* os.listdir(path): the names of the entries, never "." or ".."
os_listdir(f) == {e.name : e \in f.entries} \ {".", ".."}

\* os.path.isdir(os.path.join(path, d))
os_path_isdir_entry(f, d) == \E e \in f.entries : e.name = d /\ e.isdir

(***************************************************************************)
(* The steps of main().                                                    *)
(***************************************************************************)
current_lang_base(lang) ==
    IF truthy(lang) /\ contains(lang.v, "_")
    THEN Str(split(lang.v, "_", -1)[1])
    ELSE lang

\* the region taken with split("_")[1], without the split limit
region_of_every_split(lang) ==
    IF truthy(lang) /\ contains(lang.v, "_")
    THEN split(lang.v, "_", -1)[2]
    ELSE "N/A"

region_of(lang) ==
    IF truthy(lang) /\ contains(lang.v, "_")
    THEN split(lang.v, "_", 1)[2]
    ELSE "N/A"

variant_of(english_name) ==
    IF english_name # "" THEN re_search(english_name) ELSE None

region_display_of(region, variant) ==
    IF truthy(variant)
    THEN region \o " (" \o variant.v \o ")"
    ELSE region

\* the listing taken whole, without the isdir test
langs_of_unfiltered(f) == os_listdir(f)

langs_of(f) == {d \in os_listdir(f) : os_path_isdir_entry(f, d)}

\* str(gl.language): the repr of a list of plain strings
RECURSIVE repr_items(_)
repr_items(l) ==
    IF l = <<>> THEN ""
    ELSE "'" \o Head(l) \o "'" \o (IF Len(l) > 1 THEN ", " ELSE "") \o repr_items(Tail(l))

str_list(l) == "[" \o repr_items(l) \o "]"

\* the locals of main() once it has run to its end
locals(g, f) ==
    LET c2n   == code_to_name(g.language_dict)
        base  == current_lang_base(g.lang)
        name  == dict_get(c2n, base, "Unknown")
        reg   == region_of(g.lang)
        var   == variant_of(name)
        ldir  == getattr(g.localedir, None)
    IN [code_to_name      |-> c2n,
        current_lang_base |-> base,
        english_name      |-> name,
        region            |-> reg,
        variant           |-> var,
        region_display    |-> region_display_of(reg, var),
        localedir         |-> ldir,
        langs             |-> IF truthy(ldir) /\ os_path_isdir(f) THEN langs_of(f) ELSE {}]

chunk(call, text) == [call |-> call, text |-> text]

\* the "  code: name" lines of the installed languages, in the order given
RECURSIVE list_lines(_, _)
list_lines(ordered, c2n) ==
    IF ordered = <<>> THEN <<>>
    ELSE LET lang == Head(ordered)
         IN (IF lang \notin {".", ".."}
             THEN <<chunk("append_text",
                          "  " \o lang \o ": " \o dict_get(c2n, Str(lang), "Unknown") \o "\n")>>
             ELSE <<>>)
            \o list_lines(Tail(ordered), c2n)

\* the text calls main() makes on the panel, in order
text_calls(g, f) ==
    LET l == locals(g, f) IN
       << chunk("render_text", "<b>Current Locale</b>\n"),
          chunk("render_text", "Locale Code: " \o g.locale_code \o "\n"),
          chunk("render_text", "Language: " \o str_list(g.language) \o "\n"),
          chunk("render_text", "Lang: " \o str(g.lang) \o "\n"),
          chunk("render_text", "Region: " \o l.region_display \o "\n"),
          chunk("render_text", "English Name: " \o l.english_name
                                 \o " (" \o str(l.current_lang_base) \o ")\n") >>
       \o (IF truthy(l.localedir)
           THEN <<chunk("render_text", "Locale Directory: " \o l.localedir.v \o "\n")>>
                \o (IF os_path_isdir(f)
                    THEN <<chunk("render_text",
                                 "\n<b>Additional Installed Languages ("
                                    \o ToString(Cardinality(l.langs)) \o ")</b>\n")>>
                         \o list_lines(sorted(l.langs), l.code_to_name)
                    ELSE <<>>)
           ELSE <<>>)

\* Gramplet.render_text / Gramplet.append_text: both add the text at the end
render_text(p, text) == Append(p, chunk("render_text", text))

append_text(p, text) == Append(p, chunk("append_text", text))

RECURSIVE run_calls(_, _)
run_calls(p, cs) ==
    IF cs = <<>> THEN p
    ELSE run_calls(IF Head(cs).call = "render_text"
                   THEN render_text(p, Head(cs).text)
                   ELSE append_text(p, Head(cs).text),
                   Tail(cs))

(***************************************************************************)
(* The host states the panel is created in: a locale object and the file   *)
(* system under its translations directory.                                *)
(***************************************************************************)
RECURSIVE StringsOfLen(_, _)
StringsOfLen(A, n) ==
    IF n = 0 THEN {""}
    ELSE {s \o c : s \in StringsOfLen(A, n - 1), c \in A}

StringsUpTo(A, n) == UNION {StringsOfLen(A, k) : k \in 0..n}

\* the sequences of n <<name, code>> items with distinct names
RECURSIVE CatalogsOfLen(_, _, _)
CatalogsOfLen(N, C, n) ==
    IF n = 0 THEN {<<>>}
    ELSE {Append(u[1], <<u[2], u[3]>>) :
             u \in {w \in CatalogsOfLen(N, C, n - 1) \X N \X C : ~has_key(w[1], w[2])}}

Tags == {None} \cup {Str(s) : s \in StringsUpTo({"a", "_"}, MaxTagLen)}
               \cup {Str("zh_CN"), Str("en_US")}

Names == StringsUpTo({"S", "(", ")"}, MaxNameLen) \cup {"English", "Chinese (Simplified)"}

Catalogs ==
    UNION {CatalogsOfLen({"English", "Anglais", "Chinese (Simplified)"},
                         {"en", "zh", "a"}, n) : n \in 0..MaxCatalog}

EntryNames == {"de", "en", "en_GB", "fr"}

NoDir == [kind |-> "missing", entries |-> {}]
AFile == [kind |-> "file", entries |-> {}]
Dir(S, D) == [kind |-> "dir",
              entries |-> DotEntries \cup {[name |-> n, isdir |-> n \in D] : n \in S}]

Dirs ==
    UNION {{Dir(S, D) : D \in SUBSET S} :
              S \in {T \in SUBSET EntryNames : Cardinality(T) <= MaxEntries}}

SampleDir == Dir({"en", "fr", "de"}, {"en", "fr", "de"})

\* <<gl.localedir, fs>>: no attribute, None, "", a path that names nothing, a file, a directory
LocaleDirs ==
    {<<Absent, NoDir>>, <<None, NoDir>>, <<Str(""), NoDir>>,
     <<Str(LocalePath), NoDir>>, <<Str(LocalePath), AFile>>}
    \cup {<<Str(LocalePath), d>> : d \in Dirs}

Host(lang, language, language_dict, localedir) ==
    [lang          |-> lang,
     language      |-> language,
     locale_code   |-> "en_US.UTF-8",
     language_dict |-> language_dict,
     localedir     |-> localedir]

EnglishCatalog == << <<"English", "en">> >>
ChineseCatalog == << <<"Chinese (Simplified)", "zh">> >>
MixedCatalog   == << <<"Chinese (Simplified)", "zh">>, <<"English", "en">>, <<"Aa (b)", "a">> >>
TwiceCatalog   == << <<"English", "en">>, <<"Anglais", "en">> >>

\* every tag, with and without a catalog and a translations directory
TagHosts ==
    {<<Host(lang, language, d, ld[1]), ld[2]>> :
        lang \in Tags, language \in {<<>>, <<"en_US", "en">>},
        d \in {<<>>, MixedCatalog},
        ld \in {<<Absent, NoDir>>, <<Str(LocalePath), SampleDir>>}}

\* every name, as the name of the current language
NameHosts ==
    {<<Host(lang, <<"zh">>, << <<name, "zh">> >>, Absent), NoDir>> :
        lang \in {None, Str("zh"), Str("zh_CN")}, name \in Names}

\* every catalog
CatalogHosts ==
    {<<Host(lang, <<"en">>, d, Str(LocalePath)), SampleDir>> :
        lang \in {Str("zh_CN"), Str("a")}, d \in Catalogs}

\* every translations directory
DirHosts ==
    {<<Host(Str("en_US"), <<"en_US", "en">>, d, ld[1]), ld[2]>> :
        d \in {<<>>, EnglishCatalog, TwiceCatalog}, ld \in LocaleDirs}

Hosts == TagHosts \cup NameHosts \cup CatalogHosts \cup DirHosts

(***************************************************************************)
(* The panel: its state when the host has constructed it, and its two      *)
(* entry points.                                                           *)
(***************************************************************************)
Init ==
    /\ \E h \in Hosts : gl = h[1] /\ fs = h[2]
    /\ use_markup = FALSE
    /\ has_run = "unset"
    /\ panel = <<>>
    /\ frame = <<>>
    /\ outcome = "none"
    /\ calls = 0

\* LocaleChecker.init(): the host calls it once, before any main()
init ==
    /\ has_run = "unset"
    /\ use_markup' = TRUE
    /\ has_run' = "NotRun"
    /\ UNCHANGED <<gl, fs, panel, frame, outcome, calls>>

\* main() without the has_run test of its first line
main_unguarded ==
    /\ has_run # "unset"
    /\ calls < MaxCalls
    /\ calls' = calls + 1
    /\ has_run' = "Run"
    /\ panel' = run_calls(panel, text_calls(gl, fs))
    /\ frame' = <<locals(gl, fs)>>
    /\ outcome' = "returned"
    /\ UNCHANGED <<gl, fs, use_markup>>

\* main() inverting the catalog by popping its items off the host's dict
main_popping_catalog ==
    /\ has_run # "unset"
    /\ calls < MaxCalls
    /\ calls' = calls + 1
    /\ IF has_run = "Run"
       THEN UNCHANGED <<has_run, panel, frame, outcome, gl>>
       ELSE /\ has_run' = "Run"
            /\ panel' = run_calls(panel, text_calls(gl, fs))
            /\ frame' = <<locals(gl, fs)>>
            /\ outcome' = "returned"
            /\ gl' = [gl EXCEPT !.language_dict = <<>>]
    /\ UNCHANGED <<fs, use_markup>>

\* LocaleChecker.main() running to its end
main ==
    /\ has_run # "unset"
    /\ calls < MaxCalls
    /\ calls' = calls + 1
    /\ IF has_run = "Run"
       THEN UNCHANGED <<has_run, panel, frame, outcome>>
       ELSE /\ has_run' = "Run"
            /\ panel' = run_calls(panel, text_calls(gl, fs))
            /\ frame' = <<locals(gl, fs)>>
            /\ outcome' = "returned"
    /\ UNCHANGED <<gl, fs, use_markup>>

\* main() setting has_run only as its last statement, left by an exception
main_raises_flag_last(k) ==
    /\ has_run = "NotRun"
    /\ calls < MaxCalls
    /\ k \in 0..(Len(text_calls(gl, fs)) - 1)
    /\ calls' = calls + 1
    /\ panel' = run_calls(panel, SubSeq(text_calls(gl, fs), 1, k))
    /\ outcome' = "raised"
    /\ UNCHANGED <<gl, fs, use_markup, frame, has_run>>

\* LocaleChecker.main() left by an exception of a host call (GrampsLocale,
\* os, the panel) after k of its text calls; main() catches nothing
main_raises(k) ==
    /\ has_run = "NotRun"
    /\ calls < MaxCalls
    /\ k \in 0..(Len(text_calls(gl, fs)) - 1)
    /\ calls' = calls + 1
    /\ has_run' = "Run"
    /\ panel' = run_calls(panel, SubSeq(text_calls(gl, fs), 1, k))
    /\ outcome' = "raised"
    /\ UNCHANGED <<gl, fs, use_markup, frame>>

Next ==
    \/ init
    \/ main
    \/ \E k \in 0..(Len(text_calls(gl, fs)) - 1) : main_raises(k)

Spec == Init /\ [][Next]_vars

(***************************************************************************)
(* Properties.                                                             *)
(***************************************************************************)
called == calls' # calls      \* the step is a call of main()

\* C1: only the first main() call after init() appends text: that call takes
\* the flag from NotRun to Run, and once the flag is Run every main() call
\* leaves the panel text as it is and the flag at Run.
C1_OnlyFirstCallAppends ==
    [][called => /\ has_run' = "Run"
                 /\ (has_run = "Run" => panel' = panel)]_vars

C1_Witness ==
    /\ calls >= 2
    /\ has_run = "Run"
    /\ outcome = "returned"
    /\ Len(panel) >= 6

\* C9: a main() call leaves the host state (the locale object with its tag,
\* language, locale code, catalog and translations path, and the directory)
\* and the markup mode as they are; the panel text keeps what it held and
\* only gains text at its end.
C9_MainOnlyAppends ==
    [][called => /\ gl' = gl
                 /\ fs' = fs
                 /\ use_markup' = use_markup
                 /\ Len(panel') >= Len(panel)
                 /\ SubSeq(panel', 1, Len(panel)) = panel]_vars

C9_Witness ==
    /\ calls = 1
    /\ outcome = "returned"
    /\ gl.language_dict # <<>>
    /\ os_path_isdir(fs)
    /\ Len(panel) > 8

\* C10: a main() call that a host failure ends has set the flag to Run
\* whatever it had emitted by then (nothing, or a proper part of the report),
\* and from then on no main() call changes the panel or completes the report.
C10_FailedReportStays ==
    [][/\ (outcome' = "raised" =>
              /\ has_run' = "Run"
              /\ Len(panel') < Len(text_calls(gl, fs)))
       /\ (outcome = "raised" => outcome' = "raised" /\ panel' = panel)]_vars

C10_Witness ==
    /\ outcome = "raised"
    /\ calls >= 2
    /\ Len(panel) = 3

returned == outcome = "returned"       \* the first main() call ran to its end

has_underscore(lang) == lang.t = "str" /\ contains(lang.v, "_")

\* C2: for a tag with a "_", base_code is the text before the first "_" and
\* region is all the text after it, further "_" included, be either empty
\* or not; the English Name line shows that base_code.
C2_TagWithUnderscore ==
    (returned /\ has_underscore(gl.lang)) =>
        \E i \in 1..Len(gl.lang.v) :
            /\ Char(gl.lang.v, i) = "_"
            /\ \A j \in 1..(i - 1) : Char(gl.lang.v, j) # "_"
            /\ frame[1].current_lang_base = Str(SubSeq(gl.lang.v, 1, i - 1))
            /\ frame[1].region = SubSeq(gl.lang.v, i + 1, Len(gl.lang.v))
            /\ panel[6].text = "English Name: " \o frame[1].english_name
                                  \o " (" \o SubSeq(gl.lang.v, 1, i - 1) \o ")\n"

C2_Witness ==
    /\ returned
    /\ gl.lang = Str("a__")
    /\ frame[1].region = "_"

\* C3: for a tag without "_", region is "N/A" and base_code is the tag; for
\* a tag that is None or empty, region is "N/A", base_code is "Unknown" and
\* the line reads "English Name: Unknown (Unknown)".
C3_TagWithoutUnderscore ==
    (returned /\ ~has_underscore(gl.lang)) =>
        /\ frame[1].region = "N/A"
        /\ IF truthy(gl.lang)
           THEN frame[1].current_lang_base = gl.lang
           ELSE /\ frame[1].current_lang_base = Str("Unknown")
                /\ panel[6].text = "English Name: Unknown (Unknown)\n"

\* the codes looked up besides the catalog's own
ProbeCodes == {"", "a", "de", "en", "fr", "zh", "Unknown"}

is_code(d, c) == \E i \in DOMAIN d : d[i][2] = c

\* C4 (as claimed): in the inverted catalog every code of the catalog looks
\* up the name it came with, also when two names have the same code; a code
\* the catalog does not have looks up "Unknown".
C4_LookupReturnsOwnName ==
    returned =>
        LET d == gl.language_dict IN
        /\ \A i \in DOMAIN d :
               dict_get(frame[1].code_to_name, Str(d[i][2]), "Unknown") = d[i][1]
        /\ \A c \in ProbeCodes :
               ~is_code(d, c) => dict_get(frame[1].code_to_name, Str(c), "Unknown") = "Unknown"

\* C4 (amended): every code of the catalog looks up the name of the last
\* item of the catalog that has this code, which is the name it came with
\* when no later item has the same code; a code the catalog does not have
\* looks up "Unknown".
C4_LookupReturnsLastName ==
    returned =>
        LET d == gl.language_dict IN
        /\ \A i \in DOMAIN d :
               LET last == CHOOSE j \in DOMAIN d :
                               /\ d[j][2] = d[i][2]
                               /\ \A k \in DOMAIN d : d[k][2] = d[i][2] => k <= j
               IN dict_get(frame[1].code_to_name, Str(d[i][2]), "Unknown") = d[last][1]
        /\ \A c \in ProbeCodes :
               ~is_code(d, c) => dict_get(frame[1].code_to_name, Str(c), "Unknown") = "Unknown"

C4_Witness ==
    /\ returned
    /\ \E i, j \in DOMAIN gl.language_dict :
           i < j /\ gl.language_dict[i][2] = gl.language_dict[j][2]
    /\ \E c \in ProbeCodes : ~is_code(gl.language_dict, c)

\* the region the tag gives: the text after its first "_", "N/A" without one
tag_region(lang) ==
    IF has_underscore(lang)
    THEN LET i == CHOOSE x \in 1..Len(lang.v) :
                      Char(lang.v, x) = "_" /\ \A y \in 1..(x - 1) : Char(lang.v, y) # "_"
         IN SubSeq(lang.v, i + 1, Len(lang.v))
    ELSE "N/A"

\* the parenthesized groups of a name: <<i, j>> with "(" at i, the next ")"
\* at j and some text between them
groups(name) ==
    {g \in (1..Len(name)) \X (1..Len(name)) :
        /\ Char(name, g[1]) = "("
        /\ Char(name, g[2]) = ")"
        /\ g[2] > g[1] + 1
        /\ \A k \in (g[1] + 1)..(g[2] - 1) : Char(name, k) # ")"}

\* C5: the variant is the text of the first parenthesized group of
\* english_name, and there is none when the name has no parentheses; the
\* Region line shows "region (variant)" with a variant and the region alone
\* without one, the region being the tag's.  Tag "zh_CN" with the catalog
\* {"Chinese (Simplified)": "zh"} gives "CN (Simplified)" and
\* "Chinese (Simplified) (zh)".
C5_VariantAndRegionLine ==
    returned =>
        LET name == frame[1].english_name
            G    == groups(name)
        IN /\ (~contains(name, "(") \/ ~contains(name, ")")) => G = {}
           /\ G = {} =>
                 /\ frame[1].variant = None
                 /\ panel[5].text = "Region: " \o tag_region(gl.lang) \o "\n"
           /\ G # {} =>
                 LET g == CHOOSE x \in G : \A y \in G : x[1] <= y[1]
                     v == SubSeq(name, g[1] + 1, g[2] - 1)
                 IN /\ frame[1].variant = Str(v)
                    /\ panel[5].text =
                           "Region: " \o tag_region(gl.lang) \o " (" \o v \o ")\n"
           /\ (gl.lang = Str("zh_CN") /\ gl.language_dict = ChineseCatalog) =>
                 /\ panel[5].text = "Region: CN (Simplified)\n"
                 /\ panel[6].text = "English Name: Chinese (Simplified) (zh)\n"

C5_Witness ==
    /\ returned
    /\ gl.lang = Str("zh_CN")
    /\ gl.language_dict = ChineseCatalog
    /\ frame[1].variant = Str("Simplified")

\* the translations directory is there: the path is set and names a directory
has_locale_dir == truthy(getattr(gl.localedir, None)) /\ fs.kind = "dir"

is_list_line(c) == c.call = "append_text"

HeaderStart == "\n<b>Additional Installed Languages ("

is_header(c) ==
    /\ c.call = "render_text"
    /\ Len(c.text) >= Len(HeaderStart)
    /\ SubSeq(c.text, 1, Len(HeaderStart)) = HeaderStart

\* the immediate subdirectories of the translations directory, but . and ..
subdirs == {e.name : e \in {x \in fs.entries : x.isdir /\ x.name \notin {".", ".."}}}

\* the name the catalog gives a code: that of its last item with the code
catalog_name(c) ==
    LET d == gl.language_dict IN
    IF is_code(d, c)
    THEN d[CHOOSE j \in DOMAIN d :
               d[j][2] = c /\ \A k \in DOMAIN d : d[k][2] = c => k <= j][1]
    ELSE "Unknown"

\* C6: with the translations directory there, the list is one line
\* "  code: name" for each immediate subdirectory other than . and .. and
\* for nothing else, in ascending order of code, name being the catalog's
\* name of the code or "Unknown"; the lines end the report.  Subdirectories
\* en, fr, de with the catalog English -> en list de, en, fr in this order.
C6_InstalledLanguagesList ==
    (returned /\ has_locale_dir) =>
        LET lines == SelectSeq(panel, is_list_line) IN
        /\ Len(lines) = Cardinality(subdirs)
        /\ SubSeq(panel, Len(panel) - Len(lines) + 1, Len(panel)) = lines
        /\ \E s \in [1..Len(lines) -> subdirs] :
               /\ \A i, j \in 1..Len(lines) : i < j => str_lt(s[i], s[j])
               /\ \A i \in 1..Len(lines) :
                      lines[i].text = "  " \o s[i] \o ": " \o catalog_name(s[i]) \o "\n"
        /\ (fs = SampleDir /\ gl.language_dict = EnglishCatalog) =>
               /\ Len(lines) = 3
               /\ lines[1].text = "  de: Unknown\n"
               /\ lines[2].text = "  en: English\n"
               /\ lines[3].text = "  fr: Unknown\n"

C6_Witness ==
    /\ returned
    /\ has_locale_dir
    /\ fs = SampleDir
    /\ gl.language_dict = EnglishCatalog
    /\ Len(SelectSeq(panel, is_list_line)) = 3

\* C7: with the translations directory there, the count header is emitted
\* once, before every list line, and its N is the number of subdirectories
\* the listing returned: the number of list lines plus the number of listed
\* entries named . or .. .
C7_CountHeader ==
    (returned /\ has_locale_dir) =>
        LET hs     == {i \in DOMAIN panel : is_header(panel[i])}
            ls     == {i \in DOMAIN panel : is_list_line(panel[i])}
            listed == {n \in os_listdir(fs) : \E e \in fs.entries : e.name = n /\ e.isdir}
            dots   == listed \cap {".", ".."}
        IN /\ Cardinality(hs) = 1
           /\ \A h \in hs :
                  /\ \A l \in ls : h < l
                  /\ panel[h].text =
                         HeaderStart \o ToString(Cardinality(listed)) \o ")</b>\n"
           /\ Cardinality(listed) = Cardinality(ls) + Cardinality(dots)

C7_Witness ==
    /\ returned
    /\ has_locale_dir
    /\ \E e \in fs.entries : ~e.isdir
    /\ Cardinality(subdirs) = 2
    /\ panel[8].text = HeaderStart \o "2)</b>\n"

\* C8: without the translations directory (no attribute, None, "", or a
\* path that names no directory) the report has no count header and no
\* list line; it ends after the six locale lines, followed by the
\* Locale Directory line when a path is set.
C8_NoSectionWithoutDirectory ==
    (returned /\ ~has_locale_dir) =>
        /\ \A i \in DOMAIN panel : ~is_header(panel[i]) /\ ~is_list_line(panel[i])
        /\ Len(panel) = IF truthy(getattr(gl.localedir, None)) THEN 7 ELSE 6
        /\ panel[1].text = "<b>Current Locale</b>\n"
        /\ panel[2].text = "Locale Code: " \o gl.locale_code \o "\n"
        /\ panel[3].text = "Language: " \o str_list(gl.language) \o "\n"
        /\ panel[4].text = "Lang: " \o str(gl.lang) \o "\n"
        /\ panel[5].text = "Region: " \o frame[1].region_display \o "\n"
        /\ SubSeq(panel[6].text, 1, 14) = "English Name: "

C8_Witness ==
    /\ returned
    /\ gl.localedir = Str(LocalePath)
    /\ fs.kind = "file"
    /\ Len(panel) = 7

=============================================================================
